---------------------------- MODULE Spec2Model ----------------------------
(***************************************************************************)
(* State-machine model of DAGMCViewer (src/gui.py): the loaded DAGModel,   *)
(* the QTreeWidget built from it, the widget's selection, the export       *)
(* button's enabled flag, and the call made to the MOAB writer.            *)
(*                                                                         *)
(* The program is single threaded: every handler runs to completion, so    *)
(* each handler is one action.  Handlers are written as functions from a   *)
(* state record to a state record so that the statements of a handler      *)
(* compose in the order the code runs them.                                *)
(***************************************************************************)
EXTENDS Integers, Sequences, FiniteSets, TLC

VARIABLES dag_model,       \* self.dag_model (NoModel stands for None)
          tree,            \* top-level items of self.tree_widget
          selected,        \* paths of the selected items of self.tree_widget
          export_enabled,  \* self.export_button.isEnabled()
          loads,           \* number of DAGModel objects constructed so far
          last             \* the last handler that ran and what it did

vars == <<dag_model, tree, selected, export_enabled, loads, last>>

\* Bounds of the exploration.
MaxLoads == 2
MaxSel == 2

-----------------------------------------------------------------------------
(* The external library: files and the object graph pydagmc exposes.       *)

ValidPaths == {"scenario.h5m", "mixed.h5m", "empty.h5m"}
Paths == ValidPaths \cup {"missing.h5m"}

\* What pydagmc reports for each readable file.  A Group exposes two
\* independent accessors, .volumes and .surfaces (the Volume sets and the
\* Surface sets the group's entity set contains); a Volume exposes .surfaces.
\* "scenario.h5m" is the model of the specification's scenario: a material
\* group holding one volume.  "mixed.h5m" adds a group that holds surfaces
\* directly (a boundary group), a surface shared by two volumes and a
\* volume without surfaces.
Content(path) ==
    CASE path = "scenario.h5m" ->
           [groups   |-> <<1>>,
            gname    |-> (1 :> "G1"),
            gvols    |-> (1 :> <<10>>),
            gsurfs   |-> (1 :> << >>),
            volumes  |-> <<10>>,
            vsurfs   |-> (10 :> <<100, 101>>),
            surfaces |-> <<100, 101>>]
      [] path = "mixed.h5m" ->
           [groups   |-> <<2, 3>>,
            gname    |-> (2 :> "mat:fuel") @@ (3 :> "boundary:Vacuum"),
            gvols    |-> (2 :> <<10, 11>>) @@ (3 :> << >>),
            gsurfs   |-> (2 :> << >>) @@ (3 :> <<102>>),
            volumes  |-> <<10, 11, 12>>,
            vsurfs   |-> (10 :> <<100, 101>>) @@ (11 :> <<101, 102>>)
                         @@ (12 :> << >>),
            surfaces |-> <<100, 101, 102>>]
      [] OTHER ->
           [groups   |-> << >>,
            gname    |-> << >>,
            gvols    |-> << >>,
            gsurfs   |-> << >>,
            volumes  |-> << >>,
            vsurfs   |-> << >>,
            surfaces |-> << >>]

NoModel == [epoch |-> 0, file |-> "none"]

\* DAGModel(file_name): a fresh model object; n tells the objects apart.
DAGModel(path, n) == [epoch |-> n, file |-> path]

\* Entity objects; each keeps a reference to the model that owns it.
NoEntity == [kind |-> "None", id |-> 0, model |-> NoModel]
Group(m, id) == [kind |-> "Group", id |-> id, model |-> m]
Volume(m, id) == [kind |-> "Volume", id |-> id, model |-> m]
Surface(m, id) == [kind |-> "Surface", id |-> id, model |-> m]

ModelGroups(m) ==
    [i \in 1..Len(Content(m.file).groups) |->
        Group(m, Content(m.file).groups[i])]
ModelVolumes(m) ==
    [i \in 1..Len(Content(m.file).volumes) |->
        Volume(m, Content(m.file).volumes[i])]
ModelSurfaces(m) ==
    [i \in 1..Len(Content(m.file).surfaces) |->
        Surface(m, Content(m.file).surfaces[i])]
GroupName(g) == Content(g.model.file).gname[g.id]
GroupVolumes(g) ==
    [i \in 1..Len(Content(g.model.file).gvols[g.id]) |->
        Volume(g.model, Content(g.model.file).gvols[g.id][i])]
\* group.surfaces is read from the library as is; the program derives it
\* neither from group.volumes nor from vol.surfaces.
GroupSurfaces(g) ==
    [i \in 1..Len(Content(g.model.file).gsurfs[g.id]) |->
        Surface(g.model, Content(g.model.file).gsurfs[g.id][i])]
VolumeSurfaces(v) ==
    [i \in 1..Len(Content(v.model.file).vsurfs[v.id]) |->
        Surface(v.model, Content(v.model.file).vsurfs[v.id][i])]

\* The MOAB entity handle of a surface set: opaque, one per surface of a file.
HandleOf(s) == 9000 + s.id

-----------------------------------------------------------------------------
(* The tree widget.  An item is a record of its label, the entity stored   *)
(* under Qt.UserRole, and its children; a path is the sequence of child    *)
(* indices leading from the top level to an item.                          *)

\* The text of a label, kept as the parts the f-string interpolates.
Label(text, id, name) == [text |-> text, id |-> id, name |-> name]

\* QTreeWidgetItem([label]): an item without data.
QTreeWidgetItem(label) == [label |-> label, data |-> NoEntity, children |-> << >>]

create_item(label, entity) ==
    [QTreeWidgetItem(label) EXCEPT !.data = entity]

addChild(item, child) == [item EXCEPT !.children = Append(@, child)]

RECURSIVE addChildren(_, _)
addChildren(item, kids) ==
    IF kids = << >> THEN item
    ELSE addChildren(addChild(item, Head(kids)), Tail(kids))

\* Lines 110-112 and 119-120: one item per surface of a volume.  The label
\* interpolates the Surface object itself (f"Surface {surf}"); its text is
\* fixed by the surface, which the id stands for.
SurfaceItem(surf) == create_item(Label("Surface", surf.id, ""), surf)

VolumeItem(vol) ==
    addChildren(create_item(Label("Volume", vol.id, ""), vol),
                [i \in 1..Len(VolumeSurfaces(vol)) |->
                    SurfaceItem(VolumeSurfaces(vol)[i])])

GroupItem(group) ==
    addChildren(create_item(Label("Group", group.id, GroupName(group)), group),
                [i \in 1..Len(GroupVolumes(group)) |->
                    VolumeItem(GroupVolumes(group)[i])])

root_groups(m) ==
    addChildren(QTreeWidgetItem(Label("Groups", 0, "")),
                [i \in 1..Len(ModelGroups(m)) |-> GroupItem(ModelGroups(m)[i])])

root_volumes(m) ==
    addChildren(QTreeWidgetItem(Label("Volumes", 0, "")),
                [i \in 1..Len(ModelVolumes(m)) |-> VolumeItem(ModelVolumes(m)[i])])

root_surfaces(m) ==
    addChildren(QTreeWidgetItem(Label("Surfaces", 0, "")),
                [i \in 1..Len(ModelSurfaces(m)) |-> SurfaceItem(ModelSurfaces(m)[i])])

RECURSIVE ItemAt(_, _)
ItemAt(items, path) ==
    IF Len(path) = 1 THEN items[path[1]]
    ELSE ItemAt(items[path[1]].children, Tail(path))

RECURSIVE PathsOf(_)
PathsOf(items) ==
    UNION { {<<i>>} \cup { <<i>> \o q : q \in PathsOf(items[i].children) } :
            i \in 1..Len(items) }

-----------------------------------------------------------------------------
(* The handlers, as functions of the window's state.                       *)

State == [dag_model |-> dag_model, tree |-> tree, selected |-> selected,
          export_enabled |-> export_enabled]

update_export_button_state(st) ==
    [st EXCEPT !.export_enabled = (st.selected # {})]

\* The widget changes its selection to sel; itemSelectionChanged is emitted
\* when the selection differs, and line 66 connects it to
\* update_export_button_state.
setSelection(st, sel) ==
    IF sel = st.selected THEN st
    ELSE update_export_button_state([st EXCEPT !.selected = sel])

\* tree_widget.clear() with the signal connection dropped.
tree_clear_silent(st) == [st EXCEPT !.selected = {}, !.tree = << >>]

\* tree_widget.clear(): removes every selection (emitting
\* itemSelectionChanged if there was one), then every item.
tree_clear(st) == [setSelection(st, {}) EXCEPT !.tree = << >>]

addTopLevelItem(st, item) == [st EXCEPT !.tree = Append(@, item)]

\* populate_tree without its first statement.
populate_tree_keeps_items(st) ==
    IF st.dag_model = NoModel THEN tree_clear(st)
    ELSE addTopLevelItem(
           addTopLevelItem(
             addTopLevelItem(setSelection(st, {}), root_groups(st.dag_model)),
             root_volumes(st.dag_model)),
           root_surfaces(st.dag_model))

populate_tree(st) ==
    IF tree_clear(st).dag_model = NoModel THEN tree_clear(st)
    ELSE addTopLevelItem(
           addTopLevelItem(
             addTopLevelItem(tree_clear(st), root_groups(st.dag_model)),
             root_volumes(st.dag_model)),
           root_surfaces(st.dag_model))

\* load_from_file that rebuilds the tree even when DAGModel raised.
load_from_file_always_populates(st, path, n) ==
    IF path \notin ValidPaths THEN populate_tree(st)
    ELSE populate_tree([st EXCEPT !.dag_model = DAGModel(path, n)])

\* load_from_file that never rebuilds the tree.
load_from_file_stale_tree(st, path, n) ==
    IF path \notin ValidPaths THEN st
    ELSE [st EXCEPT !.dag_model = DAGModel(path, n)]

\* DAGModel(file_name) raises for a path that cannot be read: the assignment
\* and populate_tree are then not reached.
load_from_file(st, path, n) ==
    IF path \notin ValidPaths THEN st
    ELSE populate_tree([st EXCEPT !.dag_model = DAGModel(path, n)])

\* reset_view that keeps the model.
reset_view_keeps_model(st) ==
    [tree_clear(st) EXCEPT !.export_enabled = FALSE]

\* reset_view that keeps the tree.
reset_view_keeps_tree(st) ==
    [st EXCEPT !.dag_model = NoModel, !.export_enabled = FALSE]

reset_view(st) ==
    [tree_clear([st EXCEPT !.dag_model = NoModel]) EXCEPT !.export_enabled = FALSE]

-----------------------------------------------------------------------------
(* export_selected_entities: from the selection to the writer's argument.  *)

\* tree_widget.selectedItems(): the selected items, in an order Qt chooses.
\* The order only fixes the order of surfaces_out, which line 159 discards.
RECURSIVE selectedItems(_, _)
selectedItems(items, sel) ==
    IF sel = {} THEN << >>
    ELSE LET p == CHOOSE q \in sel : TRUE
         IN  <<ItemAt(items, p)>> \o selectedItems(items, sel \ {p})

\* The isinstance chain with its Surface branch missing.
SurfacesOf_without_surface_branch(selected_set) ==
    IF selected_set.kind = "Group" THEN GroupSurfaces(selected_set)
    ELSE IF selected_set.kind = "Volume" THEN VolumeSurfaces(selected_set)
    ELSE << >>

\* Lines 151-156: what one selected entity adds to surfaces_out.  An item
\* without data (a category root) matches no isinstance test.
SurfacesOf(selected_set) ==
    IF selected_set.kind = "Group" THEN GroupSurfaces(selected_set)
    ELSE IF selected_set.kind = "Volume" THEN VolumeSurfaces(selected_set)
    ELSE IF selected_set.kind = "Surface" THEN <<selected_set>>
    ELSE << >>

RECURSIVE surfaces_out(_)
surfaces_out(selected_items) ==
    IF selected_items = << >> THEN << >>
    ELSE SurfacesOf(Head(selected_items).data) \o surfaces_out(Tail(selected_items))

output_handles(surfs) == { HandleOf(surfs[i]) : i \in 1..Len(surfs) }

\* The handle set the export computes for a selection of the current tree.
Resolve(sel) == output_handles(surfaces_out(selectedItems(tree, sel)))

\* list(output_handles): the elements of the set, each once, in the order
\* the set happens to iterate.
ListsOf(S) ==
    { l \in [1..Cardinality(S) -> S] : { l[i] : i \in 1..Cardinality(S) } = S }

Range(l) == { l[i] : i \in 1..Len(l) }

-----------------------------------------------------------------------------
(* The state machine.                                                      *)

\* The record kept in last: the handler that ran, the list handed to
\* write_file if it was called, and whether an item was selected before.
Event(ev, handles) ==
    [ev |-> ev, handles |-> handles, had_selection |-> (selected # {})]

\* The window's fields after a handler returned st.
Apply(st) ==
    /\ dag_model' = st.dag_model
    /\ tree' = st.tree
    /\ selected' = st.selected
    /\ export_enabled' = st.export_enabled

\* __init__: no model, an empty tree, export disabled (line 70); then
\* load_from_file when a file name was given.  A file name that cannot be
\* read ends the program in the constructor.
InitialState ==
    [dag_model |-> NoModel, tree |-> << >>, selected |-> {},
     export_enabled |-> FALSE]

Init ==
    \E given \in BOOLEAN, path \in ValidPaths :
        /\ dag_model = IF given THEN load_from_file(InitialState, path, 1).dag_model
                       ELSE NoModel
        /\ tree = IF given THEN load_from_file(InitialState, path, 1).tree
                  ELSE << >>
        /\ selected = {}
        /\ export_enabled = FALSE
        /\ loads = IF given THEN 1 ELSE 0
        /\ last = [ev |-> "init", handles |-> << >>, had_selection |-> FALSE]

\* load_file with the dialog accepted: load_from_file(file_name).
LoadFile(path) ==
    /\ path \in ValidPaths => loads < MaxLoads
    /\ Apply(load_from_file(State, path, loads + 1))
    /\ loads' = IF path \in ValidPaths THEN loads + 1 ELSE loads
    /\ last' = Event(IF path \in ValidPaths THEN "load_ok" ELSE "load_error", << >>)

\* load_file with the dialog dismissed.
LoadFileCancelled ==
    /\ last' = Event("load_cancelled", << >>)
    /\ UNCHANGED <<dag_model, tree, selected, export_enabled, loads>>

\* populate_tree called on the window as it is.
PopulateTree ==
    /\ Apply(populate_tree(State))
    /\ last' = Event("populate", << >>)
    /\ UNCHANGED loads

ResetView ==
    /\ Apply(reset_view(State))
    /\ last' = Event("reset", << >>)
    /\ UNCHANGED loads

\* A plain click selects the clicked item alone.
Click(p) ==
    /\ p \in PathsOf(tree)
    /\ Apply(setSelection(State, {p}))
    /\ last' = Event("select", << >>)
    /\ UNCHANGED loads

\* Ctrl+click toggles the clicked item (ExtendedSelection, line 64).
CtrlClick(p) ==
    /\ p \in PathsOf(tree)
    /\ p \notin selected => Cardinality(selected) < MaxSel
    /\ Apply(setSelection(State, IF p \in selected THEN selected \ {p}
                                 ELSE selected \cup {p}))
    /\ last' = Event("select", << >>)
    /\ UNCHANGED loads

\* export_selected_entities; accepted is the result of file_dialog.exec().
\* The write goes through self.dag_model.mb, which raises AttributeError
\* when dag_model is None.
ExportSelectedEntities(accepted) ==
    /\ \E l \in ListsOf(Resolve(selected)) :
          last' = IF selected = {} THEN Event("export_return", << >>)
                  ELSE IF ~accepted THEN Event("export_cancelled", << >>)
                  ELSE IF dag_model = NoModel THEN Event("attribute_error", << >>)
                  ELSE Event("write_file", l)
    /\ UNCHANGED <<dag_model, tree, selected, export_enabled, loads>>

Next ==
    \/ \E path \in Paths : LoadFile(path)
    \/ LoadFileCancelled
    \/ PopulateTree
    \/ ResetView
    \/ \E p \in PathsOf(tree) : Click(p)
    \/ \E p \in PathsOf(tree) : CtrlClick(p)
    \/ \E accepted \in BOOLEAN : ExportSelectedEntities(accepted)

Spec == Init /\ [][Next]_vars

-----------------------------------------------------------------------------
(* Properties.                                                             *)

\* Paths of the items under the item at p.
ChildPaths(p) == { p \o <<i>> : i \in 1..Len(ItemAt(tree, p).children) }

\* The handles of every surface reachable through the volumes of group g.
HandlesThroughVolumes(g) ==
    UNION { output_handles(VolumeSurfaces(GroupVolumes(g)[i])) :
            i \in 1..Len(GroupVolumes(g)) }

\* C1: export never calls write_file with zero handles: a selection that
\* resolves to no handle makes the export a no-op.
C1_NeverWritesZeroHandles ==
    last.ev = "write_file" => Len(last.handles) > 0

\* C2: exporting the selection made of one Group's item alone writes exactly
\* the union of what each of the Group's Volume items resolves to alone.
C2_GroupIsUnionOfItsVolumes ==
    \A p \in selected :
        (/\ last.ev = "write_file"
         /\ selected = {p}
         /\ ItemAt(tree, p).data.kind = "Group")
        => Range(last.handles) = UNION { Resolve({q}) : q \in ChildPaths(p) }

\* An item that shows one of group g's own volumes, or a surface reachable
\* through g's volumes, under whatever parent.
CoveredBy(g, item) ==
    \/ /\ item.data.kind = "Volume"
       /\ \E i \in 1..Len(GroupVolumes(g)) : GroupVolumes(g)[i] = item.data
    \/ /\ item.data.kind = "Surface"
       /\ HandleOf(item.data) \in HandlesThroughVolumes(g)

\* C3: a selection holding a Group's item together with items of its own
\* Volumes or of Surfaces reachable through it resolves to what the Group's
\* item resolves to alone.
C3_GroupAbsorbsItsOwnEntities ==
    \A p \in selected :
        (/\ last.ev = "write_file"
         /\ ItemAt(tree, p).data.kind = "Group"
         /\ selected # {p}
         /\ \A q \in selected \ {p} :
                CoveredBy(ItemAt(tree, p).data, ItemAt(tree, q)))
        => Range(last.handles) = Resolve({p})

\* C4: a load that fails leaves the model, the tree, the selection and the
\* export flag as they were.
C4_FailedLoadChangesNothing ==
    [][last'.ev = "load_error" =>
         UNCHANGED <<dag_model, tree, selected, export_enabled>>]_vars

C4_Witness ==
    /\ last.ev = "load_error"
    /\ dag_model # NoModel
    /\ selected # {}
    /\ export_enabled

\* C5: the export button is enabled exactly when an item is selected.
C5_ExportEnabledIffSelected ==
    export_enabled <=> (selected # {})

\* A reload has just removed items that were selected.
C5_Witness ==
    /\ last.ev = "load_ok"
    /\ last.had_selection
    /\ selected = {}
    /\ ~export_enabled

\* C6: after reset there is no model, the tree has no top-level item and
\* export is disabled.
C6_ResetClearsEverything ==
    last.ev = "reset" =>
        /\ dag_model = NoModel
        /\ Len(tree) = 0
        /\ selected = {}
        /\ ~export_enabled

\* Reset of a loaded window that had a selection.
C6_Witness ==
    /\ last.ev = "reset"
    /\ last.had_selection
    /\ loads > 0

\* C7: every item that carries an entity carries one of the current model.
C7_ItemsBelongToCurrentModel ==
    \A p \in PathsOf(tree) :
        ItemAt(tree, p).data.kind # "None" =>
            /\ dag_model # NoModel
            /\ ItemAt(tree, p).data.model = dag_model

\* A second model has replaced the first and the tree shows its entities.
C7_Witness ==
    /\ last.ev = "load_ok"
    /\ loads >= 2
    /\ \E p \in PathsOf(tree) : ItemAt(tree, p).data.kind = "Surface"

\* C8: populate_tree on a window whose tree was built from the same model
\* leaves the tree as it was: three top-level items Groups, Volumes,
\* Surfaces, and nothing of the earlier build besides.
C8_PopulateIsIdempotent ==
    [][(last'.ev = "populate" /\ dag_model # NoModel) =>
         /\ tree' = tree
         /\ Len(tree') = 3
         /\ tree'[1].label.text = "Groups"
         /\ tree'[2].label.text = "Volumes"
         /\ tree'[3].label.text = "Surfaces"]_vars

C8_Witness ==
    /\ last.ev = "populate"
    /\ Len(tree) = 3
    /\ Cardinality(PathsOf(tree)) > 3

\* C9: exporting the selection made of every child of the Surfaces root
\* writes the handle of every top-level surface of the model, each once.
C9_SurfacesRootChildren ==
    (/\ last.ev = "write_file"
     /\ Len(tree) = 3
     /\ selected = ChildPaths(<<3>>))
    => /\ Range(last.handles) =
              { HandleOf(Surface(dag_model, Content(dag_model.file).surfaces[i])) :
                i \in 1..Len(Content(dag_model.file).surfaces) }
       /\ Len(last.handles) = Len(Content(dag_model.file).surfaces)

C9_Witness ==
    /\ last.ev = "write_file"
    /\ Len(tree) = 3
    /\ selected = ChildPaths(<<3>>)
    /\ Cardinality(selected) >= 2

\* C10: a tree with items implies a loaded model, and the export never
\* reaches the write with dag_model None.
C10_WriteAlwaysHasModel ==
    /\ tree # << >> => dag_model # NoModel
    /\ selected # {} => dag_model # NoModel
    /\ last.ev # "attribute_error"

\* An export that reached the write after an earlier model was dropped.
C10_Witness ==
    /\ last.ev = "write_file"
    /\ loads >= 2
    /\ dag_model # NoModel

=============================================================================
